---- MODULE Spec2Model ----
(***************************************************************************)
(* skuld.conf: the lazy settings proxy (LazySettings), the settings built  *)
(* from the module named by SKULD_SETTINGS_MODULE (Settings) and the       *)
(* holder of explicitly configured settings (SettingsHolder).              *)
(***************************************************************************)
EXTENDS Integers, Sequences, FiniteSets, TLC

VARIABLES
    global_settings,  \* namespace of the module skuld.conf.global_settings
    hasTzset,         \* hasattr(time, 'tzset') on this platform
    environ,          \* os.environ, restricted to the keys the code touches
    importable,       \* what importlib.import_module can find: path -> namespace
    wrapped,          \* LazySettings._wrapped
    cache,            \* LazySettings.__dict__ without the '_wrapped' entry
    obj,              \* a Settings (or SettingsHolder) built directly, without the proxy
    last,             \* the last operation: its name, arguments and outcome
    envReads,         \* number of os.environ.get(ENVIRONMENT_VARIABLE) calls so far
    tzsets,           \* number of time.tzset() calls so far
    created           \* number of backing objects constructed and kept so far

vars == <<global_settings, hasTzset, environ, importable, wrapped, cache, obj,
          last, envReads, tzsets, created>>

-----------------------------------------------------------------------------
(* Python strings.  A name is a TLA+ string; Chars gives its characters, so *)
(* that str.isupper, the substring test and sorted() are computed.          *)

Alphabet == <<"A","B","C","D","E","F","G","H","I","J","K","L","M","N","O","P","Q",
              "R","S","T","U","V","W","X","Y","Z","_",
              "a","b","c","d","e","f","g","h","i","j","k","l","m","n","o","p","q",
              "r","s","t","u","v","w","x","y","z">>

\* ord(c), up to the gaps between the three runs of characters
OrdTable == [c \in {Alphabet[i] : i \in 1..Len(Alphabet)} |->
                CHOOSE i \in 1..Len(Alphabet) : Alphabet[i] = c]
Ord(c) == OrdTable[c]

IsUpperChar(c) == Ord(c) <= 26
IsLowerChar(c) == Ord(c) >= 28

Chars(s) ==
    CASE s = "APPS"            -> <<"A","P","P","S">>
      [] s = "INSTALLED_APPS"  -> <<"I","N","S","T","A","L","L","E","D","_","A","P","P","S">>
      [] s = "SECRET_KEY"      -> <<"S","E","C","R","E","T","_","K","E","Y">>
      [] s = "SETTINGS_MODULE" -> <<"S","E","T","T","I","N","G","S","_","M","O","D","U","L","E">>
      [] s = "TIME_ZONE"       -> <<"T","I","M","E","_","Z","O","N","E">>
      [] s = "debug"           -> <<"d","e","b","u","g">>
      [] s = "_deleted"        -> <<"_","d","e","l","e","t","e","d">>
      [] s = "default_settings" -> <<"d","e","f","a","u","l","t","_","s","e","t","t","i","n","g","s">>

Names == {"APPS", "INSTALLED_APPS", "SECRET_KEY", "SETTINGS_MODULE", "TIME_ZONE", "debug"}

\* str.isupper(): no lower-case character and at least one upper-case one
isupper(s) ==
    LET cs == Chars(s) IN
    /\ \A i \in 1..Len(cs) : ~IsLowerChar(cs[i])
    /\ \E i \in 1..Len(cs) : IsUpperChar(cs[i])

\* a in b, for two str operands: a occurs in b as a contiguous run
StrIn(a, b) ==
    LET ca == Chars(a)
        cb == Chars(b)
    IN  \E off \in 0..(Len(cb) - Len(ca)) :
            \A i \in 1..Len(ca) : cb[off + i] = ca[i]

\* a < b in Python's string order
RECURSIVE SeqLess(_, _)
SeqLess(a, b) ==
    IF a = <<>> THEN b # <<>>
    ELSE IF b = <<>> THEN FALSE
    ELSE IF Ord(Head(a)) # Ord(Head(b)) THEN Ord(Head(a)) < Ord(Head(b))
    ELSE SeqLess(Tail(a), Tail(b))

StrLess(a, b) == SeqLess(Chars(a), Chars(b))

\* sorted(S) for a set of distinct names
RECURSIVE sorted(_)
sorted(S) ==
    IF S = {} THEN <<>>
    ELSE LET m == CHOOSE x \in S : \A y \in S \ {x} : StrLess(x, y)
         IN  <<m>> \o sorted(S \ {m})

\* sorted(seq) for a list of names, equal names kept
RECURSIVE Insert(_, _)
Insert(x, seq) ==
    IF seq = <<>> THEN <<x>>
    ELSE IF StrLess(Head(seq), x) THEN <<Head(seq)>> \o Insert(x, Tail(seq))
    ELSE <<x>> \o seq

RECURSIVE sorted_list(_)
sorted_list(seq) ==
    IF seq = <<>> THEN <<>> ELSE Insert(Head(seq), sorted_list(Tail(seq)))

-----------------------------------------------------------------------------
(* Python values: a type and a payload; the payload is empty for the empty *)
(* string, list, tuple or set.                                             *)

Str(s)   == [ty |-> "str",   v |-> s]
List(s)  == [ty |-> "list",  v |-> s]
PySet(s) == [ty |-> "set",   v |-> s]
None     == [ty |-> "NoneType", v |-> ""]
Bool(b)  == [ty |-> "bool",  v |-> b]

\* bool(x)
Truthy(x) == x.ty # "NoneType" /\ x.v # ""

\* isinstance(x, (list, tuple))
IsListOrTuple(x) == x.ty \in {"list", "tuple"}

\* a namespace (module, instance __dict__) is a function from the names it defines
Put(f, k, x) == [n \in (DOMAIN f) \cup {k} |-> IF n = k THEN x ELSE f[n]]
Drop(f, k)   == [n \in (DOMAIN f) \ {k} |-> f[n]]
EmptyNS      == [n \in {} |-> None]

\* dir(module): the sorted names of its namespace
dir(ns) == sorted(DOMAIN ns)

-----------------------------------------------------------------------------
(* Settings                                                                *)

ENVIRONMENT_VARIABLE == "SKULD_SETTINGS_MODULE"

\* line 22: ('INSTALLED_APPS') is a parenthesised str, not a tuple
tuple_settings == "INSTALLED_APPS"

\* lines 14-16: copy every upper-case attribute of global_settings
RECURSIVE CopyDefaults(_, _, _)
CopyDefaults(gs, names, self) ==
    IF names = <<>> THEN self
    ELSE LET setting == Head(names) IN
         IF isupper(setting)
         THEN CopyDefaults(gs, Tail(names), Put(self, setting, gs[setting]))
         ELSE CopyDefaults(gs, Tail(names), self)

\* line 29-30: the test that rejects a setting of the module
MustBeSequence(setting, setting_value) ==
    StrIn(setting, tuple_settings) /\ ~IsListOrTuple(setting_value)

\* lines 24-33: overlay the upper-case attributes of the module, in dir() order
\* (Overlay_nosetattr: without the setattr of line 32)
RECURSIVE Overlay_nosetattr(_, _, _, _)
Overlay_nosetattr(mod, names, self, explicit_settings) ==
    IF names = <<>>
    THEN [exc |-> "none", msg |-> <<>>, self |-> self, explicit_settings |-> explicit_settings]
    ELSE IF ~isupper(Head(names))
         THEN Overlay_nosetattr(mod, Tail(names), self, explicit_settings)
    ELSE IF MustBeSequence(Head(names), mod[Head(names)])
         THEN [exc |-> "ImproperlyConfigured",
               msg |-> <<"The", Head(names), "setting must be a list or a tuple.">>,
               self |-> self, explicit_settings |-> explicit_settings]
    ELSE Overlay_nosetattr(mod, Tail(names), self, explicit_settings \cup {Head(names)})
RECURSIVE Overlay(_, _, _, _)
Overlay(mod, names, self, explicit_settings) ==
    IF names = <<>>
    THEN [exc |-> "none", msg |-> <<>>, self |-> self, explicit_settings |-> explicit_settings]
    ELSE LET setting == Head(names) IN
         IF isupper(setting)
         THEN LET setting_value == mod[setting] IN
              IF MustBeSequence(setting, setting_value)
              THEN [exc |-> "ImproperlyConfigured",
                    msg |-> <<"The", setting, "setting must be a list or a tuple.">>,
                    self |-> self, explicit_settings |-> explicit_settings]
              ELSE Overlay(mod, Tail(names), Put(self, setting, setting_value),
                           explicit_settings \cup {setting})
         ELSE Overlay(mod, Tail(names), self, explicit_settings)

NoTZ == <<>>

\* the outcome of Settings(settings_module): the exception raised ("none" when
\* the instance is built), its message, the instance's attributes and
\* _explicit_settings, and the value written to os.environ['TZ'] before
\* time.tzset() (NoTZ when neither happened)
Outcome(exc, msg, self, explicit, tz) ==
    [exc |-> exc, msg |-> msg, self |-> self, explicit_settings |-> explicit, tz |-> tz]

\* lines 38-40
\* (TimeZoneStep_anyplatform: without the hasattr(time, 'tzset') test of line 38)
TimeZoneStep_anyplatform(self, explicit, tzset) ==
    IF "TIME_ZONE" \notin DOMAIN self
    THEN Outcome("AttributeError", <<"TIME_ZONE">>, self, explicit, NoTZ)
    ELSE IF ~Truthy(self["TIME_ZONE"]) THEN Outcome("none", <<>>, self, explicit, NoTZ)
    ELSE IF self["TIME_ZONE"].ty # "str"
         THEN Outcome("TypeError", <<"str expected">>, self, explicit, NoTZ)
    ELSE Outcome("none", <<>>, self, explicit, <<self["TIME_ZONE"].v>>)
TimeZoneStep(self, explicit, tzset) ==
    IF ~tzset THEN Outcome("none", <<>>, self, explicit, NoTZ)
    ELSE IF "TIME_ZONE" \notin DOMAIN self
         THEN Outcome("AttributeError", <<"TIME_ZONE">>, self, explicit, NoTZ)
    ELSE IF ~Truthy(self["TIME_ZONE"]) THEN Outcome("none", <<>>, self, explicit, NoTZ)
    ELSE IF self["TIME_ZONE"].ty # "str"   \* os.environ accepts only str
         THEN Outcome("TypeError", <<"str expected">>, self, explicit, NoTZ)
    ELSE Outcome("none", <<>>, self, explicit, <<self["TIME_ZONE"].v>>)

\* lines 35-36
\* (SecretKeyStep_nocheck: without the check of line 35)
SecretKeyStep_nocheck(self, explicit, tzset) == TimeZoneStep(self, explicit, tzset)
SecretKeyStep(self, explicit, tzset) ==
    IF "SECRET_KEY" \notin DOMAIN self
    THEN Outcome("AttributeError", <<"SECRET_KEY">>, self, explicit, NoTZ)
    ELSE IF ~Truthy(self["SECRET_KEY"])
         THEN Outcome("ImproperlyConfigured", <<"The SECRET_KEY setting must not be empty.">>, self, explicit, NoTZ)
    ELSE TimeZoneStep(self, explicit, tzset)

\* lines 35-40, after the overlay ov of the module
AfterOverlay(ov, tzset) ==
    IF ov.exc # "none"
    THEN Outcome(ov.exc, ov.msg, ov.self, ov.explicit_settings, NoTZ)
    ELSE SecretKeyStep(ov.self, ov.explicit_settings, tzset)

\* lines 20-40, self2 being the instance after lines 14-18
ImportAndOverlay(imp, settings_module, self2, tzset) ==
    IF settings_module \notin DOMAIN imp
    THEN Outcome("ModuleNotFoundError", <<settings_module>>, self2, {}, NoTZ)
    ELSE AfterOverlay(Overlay(imp[settings_module], dir(imp[settings_module]), self2, {}),
                      tzset)

\* Settings.__init__, lines 13-40
Settings_init(gs, imp, settings_module, tzset) ==
    ImportAndOverlay(imp, settings_module,
                     Put(CopyDefaults(gs, dir(gs), EmptyNS), "SETTINGS_MODULE",
                         Str(settings_module)),
                     tzset)

\* Settings.is_overridden, lines 42-43
\* (Settings_is_overridden_anyattr: true of every attribute of the instance)
Settings_is_overridden_anyattr(o, setting) == setting \in DOMAIN o.attrs
Settings_is_overridden(o, setting) == setting \in o.explicit_settings

-----------------------------------------------------------------------------
(* Backing objects.  One record shape serves empty, a Settings instance and *)
(* a SettingsHolder: attrs is the instance's own attributes (for a holder,  *)
(* without '_deleted' and 'default_settings', which have their own fields). *)

Object(kind, id, attrs, explicit, deleted, defaults) ==
    [kind |-> kind, id |-> id, attrs |-> attrs, explicit_settings |-> explicit,
     deleted |-> deleted, default_settings |-> defaults]

\* skuld.utils.functional.empty, the marker of an unevaluated LazyObject
empty == Object("empty", 0, EmptyNS, {}, {}, EmptyNS)

\* the result of an attribute operation on an object
Res(exc, val, o) == [exc |-> exc, val |-> val, obj |-> o]

\* getattr(module, name)
Module_getattr(ns, name) ==
    IF name \in DOMAIN ns THEN Res("none", ns[name], ns)
    ELSE Res("AttributeError", None, ns)

-----------------------------------------------------------------------------
(* SettingsHolder                                                          *)

\* line 50: the class attribute SETTINGS_MODULE = None
SettingsHolder_class == [n \in {"SETTINGS_MODULE"} |-> None]

\* SettingsHolder.__init__, lines 52-54
SettingsHolder_init(default_settings, id) ==
    Object("SettingsHolder", id, EmptyNS, {}, {}, default_settings)

\* SettingsHolder.__getattr__, lines 56-59: called when the normal lookup fails
\* (SettingsHolder_getattr_nodeleted: without lines 57-58)
SettingsHolder_getattr_nodeleted(h, name) ==
    LET r == Module_getattr(h.default_settings, name) IN Res(r.exc, r.val, h)
SettingsHolder_getattr(h, name) ==
    IF name \in h.deleted THEN Res("AttributeError", None, h)
    ELSE LET r == Module_getattr(h.default_settings, name) IN Res(r.exc, r.val, h)

\* getattr(holder, name): instance attributes, then class attributes, then
\* __getattr__ (lines 49-59)
\* (SettingsHolder_lookup_noclass: without the class attribute of line 50)
SettingsHolder_lookup_noclass(h, name) ==
    IF name \in DOMAIN h.attrs THEN Res("none", h.attrs[name], h)
    ELSE SettingsHolder_getattr(h, name)
SettingsHolder_lookup(h, name) ==
    IF name \in DOMAIN h.attrs THEN Res("none", h.attrs[name], h)
    ELSE IF name \in DOMAIN SettingsHolder_class
         THEN Res("none", SettingsHolder_class[name], h)
    ELSE SettingsHolder_getattr(h, name)

\* SettingsHolder.__setattr__, lines 61-63
\* (SettingsHolder_setattr_nodiscard: without line 62)
SettingsHolder_setattr_nodiscard(h, name, value) ==
    Res("none", None, [h EXCEPT !.attrs = Put(@, name, value)])
SettingsHolder_setattr(h, name, value) ==
    Res("none", None,
        [h EXCEPT !.deleted = @ \ {name}, !.attrs = Put(@, name, value)])

\* lines 67-68, h1 being the holder after line 66: hasattr is the full lookup;
\* object.__delattr__ fails for a name that is only a class attribute
DeleteIfHasattr(h1, name) ==
    IF SettingsHolder_lookup(h1, name).exc = "none"
    THEN IF name \in DOMAIN h1.attrs
         THEN Res("none", None, [h1 EXCEPT !.attrs = Drop(@, name)])
         ELSE Res("AttributeError", None, h1)
    ELSE Res("none", None, h1)

\* SettingsHolder.__delattr__, lines 65-68
SettingsHolder_delattr(h, name) ==
    DeleteIfHasattr([h EXCEPT !.deleted = @ \cup {name}], name)

\* a holder whose default_settings is the Settings instance o: the holder's
\* record keeps o's attributes as default_settings and o's _explicit_settings
\* as explicit_settings (empty for a module, which has no is_overridden)
SettingsHolder_init_settings(o, id) ==
    Object("SettingsHolder", id, EmptyNS, o.explicit_settings, {}, o.attrs)

\* the keys of the holder's __dict__: those of lines 53-54 and the settings
\* stored by line 63
SettingsHolder_dict(h) == {"_deleted", "default_settings"} \cup DOMAIN h.attrs

\* SettingsHolder.__dir__, lines 70-74: the two lists are concatenated, the
\* deleted names filtered out and the rest sorted
SettingsHolder_dir(h) ==
    sorted_list(SelectSeq(sorted(SettingsHolder_dict(h)) \o dir(h.default_settings),
                          LAMBDA s : s \notin h.deleted))

\* line 79: getattr(self.default_settings, 'is_overridden', lambda s: False)(setting)
Default_is_overridden(h, setting) == setting \in h.explicit_settings

\* SettingsHolder.is_overridden, lines 76-80
\* (SettingsHolder_is_overridden_nodeleted: without the deleted term of line 80)
SettingsHolder_is_overridden_nodeleted(h, setting) ==
    \/ setting \in SettingsHolder_dict(h)
    \/ Default_is_overridden(h, setting)
SettingsHolder_is_overridden(h, setting) ==
    \/ setting \in h.deleted
    \/ setting \in SettingsHolder_dict(h)
    \/ Default_is_overridden(h, setting)

-----------------------------------------------------------------------------
(* Attribute access on whatever backs the proxy                            *)

\* getattr(self._wrapped, name), line 107
Wrapped_getattr(w, name) ==
    IF w.kind = "SettingsHolder" THEN SettingsHolder_lookup(w, name)
    ELSE IF name \in DOMAIN w.attrs THEN Res("none", w.attrs[name], w)
    ELSE Res("AttributeError", None, w)

\* setattr(self._wrapped, name, value)
Wrapped_setattr(w, name, value) ==
    IF w.kind = "SettingsHolder" THEN SettingsHolder_setattr(w, name, value)
    ELSE Res("none", None, [w EXCEPT !.attrs = Put(@, name, value)])

\* delattr(self._wrapped, name)
Wrapped_delattr(w, name) ==
    IF w.kind = "SettingsHolder" THEN SettingsHolder_delattr(w, name)
    ELSE IF name \in DOMAIN w.attrs
         THEN Res("none", None, [w EXCEPT !.attrs = Drop(@, name)])
    ELSE Res("AttributeError", None, w)

-----------------------------------------------------------------------------
(* LazySettings                                                            *)

\* what one proxy operation leaves behind: the proxy's _wrapped and cache, the
\* exception it raised ("none" if it returned), the message, the value
\* returned, the number of lookups made on the backing object, the number of
\* reads of the environment selector and the TZ value set (NoTZ if none)
Step(w, c, exc, msg, val, lookups, reads, tz) ==
    [wrapped |-> w, cache |-> c, exc |-> exc, msg |-> msg, val |-> val,
     lookups |-> lookups, reads |-> reads, tz |-> tz]

\* what an operation reads of the world around the proxy
World == [env |-> environ, imp |-> importable, gs |-> global_settings,
          tzset |-> hasTzset, id |-> created + 1]

\* _setup() called without a name: name=None
NoName == ""

\* os.environ.get(key): the value, or None
environ_get(env, key) == IF key \in DOMAIN env THEN Str(env[key]) ELSE None

\* LazySettings.__setattr__ for name == '_wrapped', lines 112-113 and 116:
\* the whole __dict__ is cleared, then _wrapped is stored
\* (SetWrapped_keepcache: without line 113)
SetWrapped_keepcache(c, value) == [wrapped |-> value, cache |-> c]
SetWrapped(c, value) == [wrapped |-> value, cache |-> EmptyNS]

\* line 91
\* (Desc_generic: the name is never put in the message)
Desc_generic(name) == <<"settings">>
Desc(name) == IF name # NoName THEN <<"setting", name>> ELSE <<"settings">>

\* an operation that ends with the assignment b of self._wrapped
StepOf(b, reads, tz) == Step(b.wrapped, b.cache, "none", <<>>, None, 0, reads, tz)

\* line 97: self._wrapped = Settings(settings_module), out being the outcome of
\* the constructor
BindSettings(w, c, out, W) ==
    IF out.exc # "none"
    THEN Step(w, c, out.exc, out.msg, None, 0, 1, NoTZ)
    ELSE StepOf(SetWrapped(c, Object("Settings", W.id, out.self, out.explicit_settings,
                                     {}, EmptyNS)),
                1, out.tz)

\* lines 90-97, settings_module being what line 89 read
SetupFrom(w, c, name, settings_module, W) ==
    IF ~Truthy(settings_module)
    THEN Step(w, c, "ImproperlyConfigured",
              <<"Requested">> \o Desc(name) \o <<"but settings are not configured.">>,
              None, 0, 1, NoTZ)
    ELSE BindSettings(w, c, Settings_init(W.gs, W.imp, settings_module.v, W.tzset), W)

\* LazySettings._setup, lines 88-97
\* (LazySettings_setup_bindsfirst: _wrapped bound to an unvalidated instance
\* before Settings(...) has returned, so a failed construction stays bound)
LazySettings_setup_bindsfirst(w, c, name, W) ==
    SetupFrom(Object("Settings", W.id, EmptyNS, {}, {}, EmptyNS), EmptyNS, name,
              environ_get(W.env, ENVIRONMENT_VARIABLE), W)
LazySettings_setup(w, c, name, W) ==
    SetupFrom(w, c, name, environ_get(W.env, ENVIRONMENT_VARIABLE), W)

\* if self._wrapped is empty: self._setup(name), lines 105-106
\* (SetupIfEmpty_rereads: the selector is read again on a bound proxy)
SetupIfEmpty_rereads(w, c, name, W) ==
    IF w = empty THEN LazySettings_setup(w, c, name, W)
    ELSE Step(w, c, "none", <<>>, None, 0, 1, NoTZ)
SetupIfEmpty(w, c, name, W) ==
    IF w = empty THEN LazySettings_setup(w, c, name, W)
    ELSE Step(w, c, "none", <<>>, None, 0, 0, NoTZ)

\* lines 108-109, g being the outcome of the getattr of line 107
CacheAndReturn(s, name, g) ==
    IF g.exc # "none"
    THEN Step(s.wrapped, s.cache, g.exc, <<name>>, None, 1, s.reads, s.tz)
    ELSE Step(s.wrapped, Put(s.cache, name, g.val), "none", <<>>, g.val, 1, s.reads, s.tz)

\* lines 107-109, s being the outcome of lines 105-106
\* (FetchAndCache_nocache: the value is returned without line 108)
FetchAndCache_nocache(s, name) ==
    IF s.exc # "none" THEN s
    ELSE [CacheAndReturn(s, name, Wrapped_getattr(s.wrapped, name)) EXCEPT !.cache = s.cache]
FetchAndCache(s, name) ==
    IF s.exc # "none" THEN s
    ELSE CacheAndReturn(s, name, Wrapped_getattr(s.wrapped, name))

\* LazySettings.__getattr__, lines 104-109
LazySettings_getattr(w, c, name, W) == FetchAndCache(SetupIfEmpty(w, c, name, W), name)

\* proxy.name: Python finds the name in the instance __dict__ first and calls
\* __getattr__ (lines 104-109) only when it is not there
Proxy_read(w, c, name, W) ==
    IF name \in DOMAIN c THEN Step(w, c, "none", <<>>, c[name], 0, 0, NoTZ)
    ELSE LazySettings_getattr(w, c, name, W)

\* the outcome s of a set-up followed by an operation on the wrapped object
\* with result r
Then(s, r, name) ==
    Step(r.obj, s.cache, r.exc, IF r.exc = "none" THEN <<>> ELSE <<name>>, None, 0,
         s.reads, s.tz)

SetOnWrapped(s, name, value) ==
    IF s.exc # "none" THEN s ELSE Then(s, Wrapped_setattr(s.wrapped, name, value), name)

DeleteOnWrapped(s, name) ==
    IF s.exc # "none" THEN s ELSE Then(s, Wrapped_delattr(s.wrapped, name), name)

\* LazyObject.__setattr__ for a name other than '_wrapped': set up if
\* unevaluated, then set the attribute on the wrapped object
LazyObject_setattr(w, c, name, value, W) ==
    SetOnWrapped(SetupIfEmpty(w, c, NoName, W), name, value)

\* LazySettings.__setattr__ for a name other than '_wrapped', lines 111-116
\* (LazySettings_setattr_clearall: line 113 run for every name)
LazySettings_setattr_clearall(w, c, name, value, W) ==
    LazyObject_setattr(w, EmptyNS, name, value, W)
LazySettings_setattr(w, c, name, value, W) ==
    LazyObject_setattr(w, Drop(c, name), name, value, W)

\* LazyObject.__delattr__ for a name other than '_wrapped': set up if
\* unevaluated, then delete the attribute of the wrapped object
LazyObject_delattr(w, c, name, W) == DeleteOnWrapped(SetupIfEmpty(w, c, NoName, W), name)

\* line 120, s being the outcome of line 119
PopAfterDelete(s, name) ==
    IF s.exc # "none" THEN s ELSE [s EXCEPT !.cache = Drop(@, name)]

\* LazySettings.__delattr__, lines 118-120
\* (LazySettings_delattr_nopop: without line 120)
LazySettings_delattr_nopop(w, c, name, W) == LazyObject_delattr(w, c, name, W)
LazySettings_delattr(w, c, name, W) == PopAfterDelete(LazyObject_delattr(w, c, name, W), name)

\* lines 126-127: setattr(holder, name, value) for each option
RECURSIVE ApplyOptions(_, _, _)
ApplyOptions(holder, options, names) ==
    IF names = <<>> THEN holder
    ELSE ApplyOptions(SettingsHolder_setattr(holder, Head(names), options[Head(names)]).obj,
                      options, Tail(names))

\* lines 125-128
BindHolder(c, holder) == StepOf(SetWrapped(c, holder), 0, NoTZ)

\* LazySettings.configure, lines 122-128
\* (LazySettings_configure_noguard: without lines 123-124;
\*  LazySettings_configure_silent: returning instead of raising at line 124)
LazySettings_configure_noguard(w, c, default_settings, options, W) ==
    BindHolder(c, ApplyOptions(SettingsHolder_init(default_settings, W.id), options,
                               dir(options)))
LazySettings_configure_silent(w, c, default_settings, options, W) ==
    IF w # empty
    THEN Step(w, c, "none", <<>>, None, 0, 0, NoTZ)
    ELSE LazySettings_configure_noguard(w, c, default_settings, options, W)
LazySettings_configure(w, c, default_settings, options, W) ==
    IF w # empty
    THEN Step(w, c, "RuntimeError", <<"Settings already configured.">>, None, 0, 0, NoTZ)
    ELSE BindHolder(c, ApplyOptions(SettingsHolder_init(default_settings, W.id), options,
                                    dir(options)))

\* LazySettings.configured, lines 130-132
configured(w) == w # empty

-----------------------------------------------------------------------------
(* The inputs                                                              *)

\* the settings a read, write or delete through the proxy names
ProxyNames == {"APPS", "SECRET_KEY", "SETTINGS_MODULE"}

\* the values written through the proxy
WriteValues == {Str("w")}

\* skuld.conf.global_settings: upper-case settings and one ordinary attribute
Catalog(secret_key) ==
    [n \in {"INSTALLED_APPS", "SECRET_KEY", "TIME_ZONE", "debug"} |->
        CASE n = "INSTALLED_APPS" -> List("ab")
          [] n = "SECRET_KEY"     -> Str(secret_key)
          [] n = "TIME_ZONE"      -> Str("UTC")
          [] n = "debug"          -> Str("fn")]

Catalogs == {Catalog(""), Catalog("k")}

\* the namespaces a settings module may have
ModuleValues == {Str(""), Str("k"), List("ab"), PySet("ab")}
Modules == UNION {[S -> ModuleValues] : S \in SUBSET Names}

\* the modules on the import path of the proxy's process
ModuleTable ==
    [p \in {"ok", "sets", "nokey"} |->
        CASE p = "ok"    -> [n \in {"INSTALLED_APPS", "SECRET_KEY"} |->
                                IF n = "SECRET_KEY" THEN Str("k") ELSE List("ab")]
          [] p = "sets"  -> [n \in {"INSTALLED_APPS", "SECRET_KEY"} |->
                                IF n = "SECRET_KEY" THEN Str("k") ELSE PySet("ab")]
          [] p = "nokey" -> [n \in {"SECRET_KEY"} |-> Str("")]]

\* the values SKULD_SETTINGS_MODULE takes; "gone" names no module
Selectors == {"", "gone", "sets", "nokey", "ok"}

\* the keyword options passed to configure
OptionSets == UNION {[S -> {Str("o")}] : S \in SUBSET {"SECRET_KEY", "SETTINGS_MODULE"}}

\* a default_settings object other than global_settings passed to configure
Provider == [n \in {"APPS", "SETTINGS_MODULE"} |-> Str("p")]

\* the most reads of the environment selector a behaviour makes
MaxEnvReads == 2

NoOp == [op |-> "none", name |-> NoName, exc |-> "none", msg |-> <<>>, val |-> None,
         lookups |-> 0, reads |-> 0, hit |-> FALSE, options |-> EmptyNS,
         defaults |-> EmptyNS]

-----------------------------------------------------------------------------
(* The proxy as a state machine                                            *)

Init ==
    /\ global_settings = Catalog("")
    /\ hasTzset = TRUE
    /\ environ \in {EmptyNS} \cup {[k \in {ENVIRONMENT_VARIABLE} |-> v] : v \in Selectors}
    /\ importable = ModuleTable
    /\ wrapped = empty
    /\ cache = EmptyNS
    /\ obj = empty
    /\ last = NoOp
    /\ envReads = 0
    /\ tzsets = 0
    /\ created = 0

\* the effects of one proxy operation with outcome s; last.hit tells whether
\* the name was in the proxy's __dict__ when the operation began
Apply(op, name, defaults, options, s) ==
    /\ envReads + s.reads <= MaxEnvReads
    /\ wrapped' = s.wrapped
    /\ cache' = s.cache
    /\ last' = [op |-> op, name |-> name, exc |-> s.exc, msg |-> s.msg, val |-> s.val,
                lookups |-> s.lookups, reads |-> s.reads, hit |-> name \in DOMAIN cache,
                options |-> options, defaults |-> defaults]
    /\ envReads' = envReads + s.reads
    /\ created' = IF s.wrapped.id > created THEN s.wrapped.id ELSE created
    /\ IF s.tz # NoTZ
       THEN environ' = Put(environ, "TZ", s.tz[1]) /\ tzsets' = tzsets + 1
       ELSE UNCHANGED <<environ, tzsets>>
    /\ UNCHANGED <<global_settings, hasTzset, importable, obj>>

\* value = proxy.name
Read(name) == Apply("read", name, EmptyNS, EmptyNS, Proxy_read(wrapped, cache, name, World))

\* proxy.name = value
Write(name, value) ==
    Apply("write", name, EmptyNS, EmptyNS, LazySettings_setattr(wrapped, cache, name, value, World))

\* del proxy.name
Delete(name) ==
    Apply("delete", name, EmptyNS, EmptyNS, LazySettings_delattr(wrapped, cache, name, World))

\* proxy.configure(default_settings, **options)
Configure(default_settings, options) ==
    Apply("configure", NoName, default_settings, options,
          LazySettings_configure(wrapped, cache, default_settings, options, World))

\* the process environment changes before the settings are set up
SetEnviron(v) ==
    /\ wrapped = empty
    /\ environ' = Put(environ, ENVIRONMENT_VARIABLE, v)
    /\ environ' # environ
    /\ last' = [NoOp EXCEPT !.op = "environ"]
    /\ UNCHANGED <<global_settings, hasTzset, importable, wrapped, cache, obj,
                   envReads, tzsets, created>>

Next ==
    \/ \E name \in ProxyNames : Read(name)
    \/ \E name \in ProxyNames, value \in WriteValues : Write(name, value)
    \/ \E name \in ProxyNames : Delete(name)
    \/ \E default_settings \in {global_settings, Provider}, options \in OptionSets :
          Configure(default_settings, options)
    \/ \E v \in Selectors : SetEnviron(v)

Spec == Init /\ [][Next]_vars

-----------------------------------------------------------------------------
(* Claims about the proxy                                                  *)

Bound == wrapped.kind \in {"Settings", "SettingsHolder"}

\* what reading proxy.n gives in the current state: exception and value
Observed(n) ==
    LET r == Proxy_read(wrapped, cache, n, World) IN [exc |-> r.exc, val |-> r.val]

\* the message of line 93-95 for a description
NotConfiguredMsg(desc) ==
    <<"Requested">> \o desc \o <<"but settings are not configured.">>

\* C1: configure on a bound proxy raises RuntimeError and leaves the backing
\* object, every value readable through the proxy and the cache as they were.
C1_ConfigureOnBoundFails ==
    [][(Bound /\ last'.op = "configure") =>
          /\ last'.exc = "RuntimeError"
          /\ last'.msg = <<"Settings already configured.">>
          /\ wrapped' = wrapped
          /\ cache' = cache
          /\ \A n \in ProxyNames : Observed(n)' = Observed(n)]_vars

\* configure was refused on a proxy bound by auto-resolve, with a cached value
C1_Witness ==
    /\ last.op = "configure"
    /\ last.exc = "RuntimeError"
    /\ wrapped.kind = "Settings"
    /\ cache # EmptyNS

\* C2: once bound, the proxy keeps the same backing object of the same kind
\* and never becomes unconfigured again; at most one backing object is ever
\* installed; configured is true exactly when the proxy is bound.
C2_BoundOnce ==
    /\ [](configured(wrapped) <=> Bound)
    /\ [](created <= 1)
    /\ [][Bound => /\ wrapped'.id = wrapped.id
                   /\ wrapped'.kind = wrapped.kind
                   /\ configured(wrapped')]_vars

\* a holder that was written to and deleted from through the proxy and then
\* refused a second configure
C2_Witness ==
    /\ wrapped.kind = "SettingsHolder"
    /\ wrapped.deleted # {}
    /\ "w" \in {wrapped.attrs[n].v : n \in DOMAIN wrapped.attrs}
    /\ last.op = "configure"
    /\ configured(wrapped)

AfterConfigure == last.op = "configure" /\ last.exc = "none"

\* C3 as stated: after a successful configure the proxy is bound to a holder,
\* configure did not read the environment selector, and reading any name
\* gives the option's value, else the default provider's value, else
\* AttributeError.
C3_Original ==
    AfterConfigure =>
        /\ wrapped.kind = "SettingsHolder"
        /\ last.reads = 0
        /\ \A n \in Names :
              IF n \in DOMAIN last.options
              THEN Observed(n) = [exc |-> "none", val |-> last.options[n]]
              ELSE IF n \in DOMAIN last.defaults
                   THEN Observed(n) = [exc |-> "none", val |-> last.defaults[n]]
              ELSE Observed(n).exc = "AttributeError"

\* C3 amended: the same, except that SETTINGS_MODULE, when it is not among the
\* options, reads as None (the holder's class attribute) and never falls
\* through to the default provider or to AttributeError.
C3_ConfigureThenRead ==
    AfterConfigure =>
        /\ wrapped.kind = "SettingsHolder"
        /\ last.reads = 0
        /\ \A n \in Names :
              IF n \in DOMAIN last.options
              THEN Observed(n) = [exc |-> "none", val |-> last.options[n]]
              ELSE IF n = "SETTINGS_MODULE"
                   THEN Observed(n) = [exc |-> "none", val |-> None]
              ELSE IF n \in DOMAIN last.defaults
                   THEN Observed(n) = [exc |-> "none", val |-> last.defaults[n]]
              ELSE Observed(n).exc = "AttributeError"

\* configure(global_settings, SECRET_KEY=...) succeeded: SECRET_KEY reads the
\* option, TIME_ZONE the default, APPS is not found and SETTINGS_MODULE is None
C3_Witness ==
    /\ AfterConfigure
    /\ last.defaults = global_settings
    /\ DOMAIN last.options = {"SECRET_KEY"}
    /\ Observed("SECRET_KEY").val = Str("o")
    /\ Observed("TIME_ZONE").val = global_settings["TIME_ZONE"]
    /\ Observed("APPS").exc = "AttributeError"
    /\ Observed("SETTINGS_MODULE").val = None

SelectorUnset == ~Truthy(environ_get(environ, ENVIRONMENT_VARIABLE))

\* C4: with the selector unset or empty, a read of N on an unconfigured proxy
\* raises ImproperlyConfigured with "setting N" in the message; a set-up
\* started without a name (by a write or a delete) says "settings".
C4_UnsetSelectorMessage ==
    [][(~Bound /\ SelectorUnset) =>
          /\ last'.op = "read" =>
                /\ last'.exc = "ImproperlyConfigured"
                /\ last'.msg = NotConfiguredMsg(<<"setting", last'.name>>)
          /\ last'.op \in {"write", "delete"} =>
                /\ last'.exc = "ImproperlyConfigured"
                /\ last'.msg = NotConfiguredMsg(<<"settings">>)]_vars

\* a read of SECRET_KEY failed with the message naming it, the variable unset
C4_Witness ==
    /\ ENVIRONMENT_VARIABLE \notin DOMAIN environ
    /\ last.op = "read"
    /\ last.name = "SECRET_KEY"
    /\ last.exc = "ImproperlyConfigured"
    /\ last.msg = NotConfiguredMsg(<<"setting", "SECRET_KEY">>)

\* the causes of a failed auto-resolve, read off the environment
SetupCause ==
    LET sel == environ_get(environ, ENVIRONMENT_VARIABLE) IN
    \/ ~Truthy(sel)
    \/ sel.v \notin DOMAIN importable
    \/ LET mod == importable[sel.v] IN
       \/ "INSTALLED_APPS" \in DOMAIN mod /\ ~IsListOrTuple(mod["INSTALLED_APPS"])
       \/ ~Truthy(IF "SECRET_KEY" \in DOMAIN mod THEN mod["SECRET_KEY"]
                  ELSE global_settings["SECRET_KEY"])

\* C5: an auto-resolve that fails for any of the causes leaves the proxy
\* unconfigured with an empty cache; every read of an unconfigured proxy reads
\* the selector and tries again; once no cause remains, a read binds the proxy
\* to a Settings, and configure binds an unconfigured proxy whatever happened.
C5_FailedResolveRetries ==
    [][~Bound =>
          /\ (SetupCause /\ last'.op \in {"read", "write", "delete"}) =>
                /\ last'.exc \in {"ImproperlyConfigured", "ModuleNotFoundError"}
                /\ wrapped' = empty
                /\ cache' = EmptyNS
                /\ ~configured(wrapped')
          /\ last'.op = "read" => last'.reads = 1
          /\ (~SetupCause /\ last'.op = "read") =>
                /\ wrapped'.kind = "Settings"
                /\ last'.exc \in {"none", "AttributeError"}
                /\ configured(wrapped')
          /\ last'.op = "configure" =>
                /\ last'.exc = "none"
                /\ wrapped'.kind = "SettingsHolder"
                /\ configured(wrapped')]_vars

\* a read bound the proxy at the second reading of the selector: an earlier
\* auto-resolve had failed
C5_Witness ==
    /\ last.op = "read"
    /\ last.exc = "none"
    /\ last.reads = 1
    /\ envReads = 2
    /\ wrapped.kind = "Settings"

\* C6: of two consecutive reads of the same name that return, the second
\* returns the same value without a lookup on the backing object; the pair
\* makes one lookup when the name was not cached before the first read.
C6_SecondReadFromCache ==
    [][(/\ last.op = "read" /\ last.exc = "none"
        /\ last'.op = "read" /\ last'.name = last.name) =>
          /\ last'.exc = "none"
          /\ last'.val = last.val
          /\ last'.lookups = 0
          /\ last'.hit
          /\ ~last.hit => last.lookups + last'.lookups = 1]_vars

\* the second of two reads of SECRET_KEY, served from the cache
C6_Witness ==
    /\ Bound
    /\ last.op = "read"
    /\ last.name = "SECRET_KEY"
    /\ last.exc = "none"
    /\ last.hit
    /\ last.lookups = 0

-----------------------------------------------------------------------------
(* Settings built directly from a module, for every module of Modules      *)

\* the path the settings module is imported from
ModulePath == "m"

InitSettings ==
    /\ global_settings \in Catalogs
    /\ hasTzset \in BOOLEAN
    /\ environ = EmptyNS
    /\ importable \in {EmptyNS} \cup {[p \in {ModulePath} |-> mod] : mod \in Modules}
    /\ wrapped = empty
    /\ cache = EmptyNS
    /\ obj = empty
    /\ last = NoOp
    /\ envReads = 0
    /\ tzsets = 0
    /\ created = 0

\* obj = Settings(settings_module); a constructor that raises leaves no instance
NewSettings(settings_module) ==
    /\ last.op = "none"
    /\ LET out == Settings_init(global_settings, importable, settings_module, hasTzset) IN
       /\ obj' = IF out.exc = "none"
                 THEN Object("Settings", created + 1, out.self, out.explicit_settings,
                             {}, EmptyNS)
                 ELSE obj
       /\ created' = IF out.exc = "none" THEN created + 1 ELSE created
       /\ last' = [NoOp EXCEPT !.op = "Settings", !.name = settings_module,
                                !.exc = out.exc, !.msg = out.msg]
       /\ IF out.tz # NoTZ
          THEN environ' = Put(environ, "TZ", out.tz[1]) /\ tzsets' = tzsets + 1
          ELSE UNCHANGED <<environ, tzsets>>
    /\ UNCHANGED <<global_settings, hasTzset, importable, wrapped, cache, envReads>>

NextSettings == NewSettings(ModulePath)

SpecSettings == InitSettings /\ [][NextSettings]_vars

\* the module the Settings under test was built from, and whether it was built
TheModule == importable[ModulePath]
Built == last.op = "Settings" /\ last.exc = "none"
Attempted == last.op = "Settings" /\ ModulePath \in DOMAIN importable

\* the message 'The <setting> setting must be a list or a tuple.'
MustBeListMsg(setting) == <<"The", setting, "setting must be a list or a tuple.">>

-----------------------------------------------------------------------------
\* C7: in a built Settings, every upper-case name the module defines has the
\* module's value, every upper-case name only global_settings defines has the
\* catalog's value, and no name that is not upper-case was copied from either.
C7_ModuleWinsOverCatalog ==
    Built =>
        /\ \A n \in Names :
              isupper(n) =>
                /\ n \in DOMAIN TheModule =>
                      n \in DOMAIN obj.attrs /\ obj.attrs[n] = TheModule[n]
                /\ (n \notin DOMAIN TheModule /\ n \in DOMAIN global_settings) =>
                      n \in DOMAIN obj.attrs /\ obj.attrs[n] = global_settings[n]
        /\ \A n \in Names : ~isupper(n) => n \notin DOMAIN obj.attrs

\* a built Settings whose module overrides SECRET_KEY with another value than
\* the catalog's, leaves TIME_ZONE to the catalog and defines a lower-case name
C7_Witness ==
    /\ Built
    /\ "SECRET_KEY" \in DOMAIN TheModule
    /\ TheModule["SECRET_KEY"] # global_settings["SECRET_KEY"]
    /\ "TIME_ZONE" \notin DOMAIN TheModule
    /\ "debug" \in DOMAIN TheModule
    /\ obj.attrs["SECRET_KEY"] = TheModule["SECRET_KEY"]

\* C8: in a built Settings, is_overridden(N) is true exactly for the
\* upper-case names the module defines.
C8_IsOverriddenIffModuleDefines ==
    Built =>
        \A n \in Names :
            Settings_is_overridden(obj, n) <=> (isupper(n) /\ n \in DOMAIN TheModule)

\* a built Settings where the module gives SECRET_KEY the catalog's own value
\* (overridden all the same) and gives APPS the catalog's value of
\* INSTALLED_APPS, which only the catalog defines (not overridden)
C8_Witness ==
    /\ Built
    /\ "SECRET_KEY" \in DOMAIN TheModule
    /\ TheModule["SECRET_KEY"] = global_settings["SECRET_KEY"]
    /\ Settings_is_overridden(obj, "SECRET_KEY")
    /\ "INSTALLED_APPS" \notin DOMAIN TheModule
    /\ "APPS" \in DOMAIN TheModule
    /\ TheModule["APPS"] = global_settings["INSTALLED_APPS"]
    /\ ~Settings_is_overridden(obj, "INSTALLED_APPS")
    /\ ~Settings_is_overridden(obj, "debug")

\* C9: building Settings from a module whose INSTALLED_APPS is not a list or
\* tuple raises ImproperlyConfigured with the message naming INSTALLED_APPS,
\* and no instance results.
C9_BadInstalledAppsNamed ==
    (/\ Attempted
     /\ "INSTALLED_APPS" \in DOMAIN TheModule
     /\ ~IsListOrTuple(TheModule["INSTALLED_APPS"]))
    => /\ last.exc = "ImproperlyConfigured"
       /\ last.msg = MustBeListMsg("INSTALLED_APPS")
       /\ obj = empty

\* C10: the must-be-a-list-or-tuple error is raised for INSTALLED_APPS only;
\* every other upper-case attribute of the module is copied and recorded as
\* explicit whatever its value.
C10_OnlyInstalledAppsValidated ==
    Attempted =>
        \A n \in Names \ {"INSTALLED_APPS"} :
            /\ last.msg # MustBeListMsg(n)
            /\ (Built /\ isupper(n) /\ n \in DOMAIN TheModule)
                  => obj.attrs[n] = TheModule[n] /\ n \in obj.explicit_settings

\* the message of line 36
SecretKeyMsg == <<"The SECRET_KEY setting must not be empty.">>

\* the module passes the validation of lines 29-31, as the code makes it
SequencesValid ==
    \A n \in DOMAIN TheModule : isupper(n) => ~MustBeSequence(n, TheModule[n])

\* SECRET_KEY as the overlay resolves it: the module's when it defines one,
\* else the catalog's
ResolvedSecretKey ==
    IF "SECRET_KEY" \in DOMAIN TheModule THEN TheModule["SECRET_KEY"]
    ELSE global_settings["SECRET_KEY"]

\* C11: when the module is imported and passes the sequence validation, the
\* construction raises ImproperlyConfigured 'The SECRET_KEY setting must not
\* be empty.' exactly when the resolved SECRET_KEY (the module's if it defines
\* one, else the catalog's) is falsy, and then leaves no instance and no TZ.
C11_SecretKeyCheckedAfterOverlay ==
    (Attempted /\ SequencesValid) =>
        /\ (last.exc = "ImproperlyConfigured" /\ last.msg = SecretKeyMsg)
              <=> ~Truthy(ResolvedSecretKey)
        /\ ~Truthy(ResolvedSecretKey) => (obj = empty /\ tzsets = 0)
        /\ Built => obj.attrs["SECRET_KEY"] = ResolvedSecretKey

\* the module sets SECRET_KEY to "" over a non-empty catalog default, and the
\* construction failed on it
C11_Witness ==
    /\ Attempted
    /\ SequencesValid
    /\ "SECRET_KEY" \in DOMAIN TheModule
    /\ TheModule["SECRET_KEY"] = Str("")
    /\ global_settings["SECRET_KEY"] = Str("k")
    /\ last.exc = "ImproperlyConfigured"
    /\ last.msg = SecretKeyMsg

-----------------------------------------------------------------------------
(* A SettingsHolder used directly: get, set, delete, dir and is_overridden  *)

\* the settings the operations on the holder name
HolderNames == {"APPS", "SECRET_KEY", "SETTINGS_MODULE", "TIME_ZONE"}

\* the values set on the holder
HolderValues == {Str("v"), Str("w")}

\* a Settings instance given to the holder as default_settings
SettingsProvider ==
    LET out == Settings_init(Catalog("k"), ModuleTable, "ok", FALSE)
    IN  Object("Settings", 0, out.self, out.explicit_settings, {}, EmptyNS)

InitHolder ==
    /\ global_settings = Catalog("k")
    /\ hasTzset = FALSE
    /\ environ = EmptyNS
    /\ importable = ModuleTable
    /\ wrapped = empty
    /\ cache = EmptyNS
    /\ obj \in {SettingsHolder_init(Provider, 1),
                SettingsHolder_init_settings(SettingsProvider, 1)}
    /\ last = NoOp
    /\ envReads = 0
    /\ tzsets = 0
    /\ created = 1

\* the effects of one operation on the holder with result r; last.options
\* keeps the value a set was given
HolderApply(op, name, options, r) ==
    /\ obj' = r.obj
    /\ last' = [NoOp EXCEPT !.op = op, !.name = name, !.exc = r.exc, !.val = r.val,
                             !.options = options]
    /\ UNCHANGED <<global_settings, hasTzset, environ, importable, wrapped, cache,
                   envReads, tzsets, created>>

\* holder.name
HolderGet(name) == HolderApply("get", name, EmptyNS, SettingsHolder_lookup(obj, name))

\* holder.name = value
HolderSet(name, value) ==
    HolderApply("set", name, [n \in {name} |-> value],
                SettingsHolder_setattr(obj, name, value))

\* del holder.name
HolderDelete(name) ==
    HolderApply("delete", name, EmptyNS, SettingsHolder_delattr(obj, name))

\* dir(holder)
HolderDir ==
    HolderApply("dir", NoName, EmptyNS, Res("none", List(SettingsHolder_dir(obj)), obj))

\* holder.is_overridden(name)
HolderIsOverridden(name) ==
    HolderApply("is_overridden", name, EmptyNS,
                Res("none", Bool(SettingsHolder_is_overridden(obj, name)), obj))

NextHolder ==
    \/ \E name \in HolderNames : HolderGet(name)
    \/ \E name \in HolderNames, value \in HolderValues : HolderSet(name, value)
    \/ \E name \in HolderNames : HolderDelete(name)
    \/ HolderDir
    \/ \E name \in HolderNames : HolderIsOverridden(name)

SpecHolder == InitHolder /\ [][NextHolder]_vars

\* what holder.n gives in the current state: exception and value
Get(n) == LET r == SettingsHolder_lookup(obj, n) IN [exc |-> r.exc, val |-> r.val]

\* what the default provider gives for n
Inherited(n) ==
    LET r == Module_getattr(obj.default_settings, n) IN [exc |-> r.exc, val |-> r.val]

NotFound == [exc |-> "AttributeError", val |-> None]
Found(x) == [exc |-> "none", val |-> x]

\* the last operation was op on n
LastWas(op, n) == last.op = op /\ last.name = n

-----------------------------------------------------------------------------
\* C12 as stated: on a holder, get(N) right after delete(N) is not found,
\* right after set(N, v) it is v, and on a holder nothing was done to it is
\* the default provider's answer, for every name N.
C12_Original ==
    \A n \in HolderNames :
        /\ LastWas("delete", n) => Get(n) = NotFound
        /\ LastWas("set", n) => Get(n) = Found(last.options[n])
        /\ last.op = "none" => Get(n) = Inherited(n)

\* C12 amended: the same for every name but SETTINGS_MODULE, which reads None
\* (the class attribute) where another name would be not found or inherited,
\* and whose delete raises AttributeError when it has no explicit value; a
\* delete of another name never raises; and no operation changes what get
\* gives for a name other than the one it was applied to.
C12_LastOperationDecides ==
    /\ [](\A n \in HolderNames \ {"SETTINGS_MODULE"} :
            /\ LastWas("delete", n) => (Get(n) = NotFound /\ last.exc = "none")
            /\ LastWas("set", n) => Get(n) = Found(last.options[n])
            /\ last.op = "none" => Get(n) = Inherited(n))
    /\ [](/\ LastWas("delete", "SETTINGS_MODULE") => Get("SETTINGS_MODULE") = Found(None)
          /\ LastWas("set", "SETTINGS_MODULE")
                => Get("SETTINGS_MODULE") = Found(last.options["SETTINGS_MODULE"])
          /\ last.op = "none" => Get("SETTINGS_MODULE") = Found(None))
    /\ [][/\ \A n \in HolderNames :
                (last'.op \notin {"set", "delete"} \/ last'.name # n) => Get(n)' = Get(n)
          /\ (last'.op = "delete" /\ last'.name = "SETTINGS_MODULE") =>
                (last'.exc = "AttributeError" <=> "SETTINGS_MODULE" \notin DOMAIN obj.attrs)
         ]_vars

\* APPS, which the provider defines, was set and then deleted: it is not found
C12_Witness ==
    /\ LastWas("delete", "APPS")
    /\ "APPS" \in DOMAIN obj.default_settings
    /\ "APPS" \in obj.deleted
    /\ "SECRET_KEY" \in DOMAIN obj.attrs
    /\ Get("APPS") = NotFound
    /\ Get("SECRET_KEY") = Found(Str("w"))

\* C13: in every reachable state of a holder no name is both in _deleted and
\* in the holder's __dict__; a set leaves its name stored and not deleted, a
\* delete leaves its name deleted and not stored.
C13_DeletedAndSetDisjoint ==
    /\ obj.deleted \cap SettingsHolder_dict(obj) = {}
    /\ \A n \in HolderNames :
          /\ LastWas("set", n) => (n \in DOMAIN obj.attrs /\ n \notin obj.deleted)
          /\ LastWas("delete", n) => (n \in obj.deleted /\ n \notin DOMAIN obj.attrs)

\* SETTINGS_MODULE was deleted without an error, so it had been set before;
\* APPS is stored and TIME_ZONE is deleted
C13_Witness ==
    /\ LastWas("delete", "SETTINGS_MODULE")
    /\ last.exc = "none"
    /\ "SETTINGS_MODULE" \in obj.deleted
    /\ "APPS" \in DOMAIN obj.attrs
    /\ "TIME_ZONE" \in obj.deleted

\* C14: dir(holder) is the sorted list, without repetition, of the names set
\* on the holder and the names of its default_settings that are not deleted.
C14_DirIsSortedUnion ==
    last.op = "dir" =>
        last.val = List(sorted((DOMAIN obj.attrs \cup DOMAIN obj.default_settings)
                               \ obj.deleted))

-----------------------------------------------------------------------------
\* C15 as stated: a write through a bound proxy leaves the local cache empty.
C15_Original ==
    [][(Bound /\ last'.op = "write") => cache' = EmptyNS]_vars

\* C15 amended: a write of X through a bound proxy removes X from the local
\* cache and nothing else: every other cached name keeps its entry, and the
\* next read of X gives the value written.
C15_WritePopsOnlyItsName ==
    [][(Bound /\ last'.op = "write") =>
          /\ last'.exc = "none"
          /\ cache' = Drop(cache, last'.name)
          /\ \A n \in DOMAIN cache \ {last'.name} :
                n \in DOMAIN cache' /\ cache'[n] = cache[n]
          /\ \A n \in ProxyNames :
                n = last'.name => (Observed(n)'.exc = "none" /\ Observed(n)'.val \in WriteValues)]_vars

\* after a write of SECRET_KEY through a bound proxy, APPS is still cached
C15_Witness ==
    /\ Bound
    /\ last.op = "write"
    /\ last.name = "SECRET_KEY"
    /\ "SECRET_KEY" \notin DOMAIN cache
    /\ "APPS" \in DOMAIN cache

-----------------------------------------------------------------------------
(* The proxy when the application also assigns proxy._wrapped itself       *)

\* the most backing objects a behaviour constructs
MaxCreated == 2

\* the selectors of the environment the proxy starts in
RebindSelectors == {"nokey", "ok"}

InitRebind ==
    /\ global_settings = Catalog("")
    /\ hasTzset = TRUE
    /\ environ \in {[k \in {ENVIRONMENT_VARIABLE} |-> v] : v \in RebindSelectors}
    /\ importable = ModuleTable
    /\ wrapped = empty
    /\ cache = EmptyNS
    /\ obj = empty
    /\ last = NoOp
    /\ envReads = 0
    /\ tzsets = 0
    /\ created = 0

\* proxy._wrapped = value, lines 111-116 with name == '_wrapped'
WriteWrapped(value) ==
    /\ created < MaxCreated
    /\ Apply("rebind", "_wrapped", EmptyNS, EmptyNS, StepOf(SetWrapped(cache, value), 0, NoTZ))

\* proxy._wrapped = empty
ResetWrapped == WriteWrapped(empty)

\* proxy._wrapped = SettingsHolder(default_settings)
ReplaceWrapped(default_settings) ==
    WriteWrapped(SettingsHolder_init(default_settings, created + 1))

NextRebind ==
    \/ \E name \in ProxyNames : Read(name)
    \/ \E name \in ProxyNames, value \in WriteValues : Write(name, value)
    \/ \E name \in ProxyNames : Delete(name)
    \/ \E options \in OptionSets : Configure(Provider, options)
    \/ ResetWrapped
    \/ ReplaceWrapped(Provider)

SpecRebind == InitRebind /\ [][NextRebind]_vars

\* the backing object is another one after the step
Replaced == wrapped'.id # wrapped.id \/ wrapped'.kind # wrapped.kind

\* every cached value is what the backing object gives for its name
CacheCoherent ==
    \A n \in DOMAIN cache :
        LET r == Wrapped_getattr(wrapped, n) IN r.exc = "none" /\ r.val = cache[n]

\* C16: an unconfigured proxy has an empty cache; after every step that
\* replaces the backing object (a bind by auto-resolve or by configure, an
\* assignment to _wrapped) the cache is empty; and every cached value is the
\* one the current backing object gives.
C16_CacheDiesWithBackingObject ==
    /\ [](wrapped = empty => cache = EmptyNS)
    /\ [](last.op \in {"rebind", "configure"} /\ last.exc = "none" => cache = EmptyNS)
    /\ [](CacheCoherent)
    /\ [][Replaced =>
            \/ cache' = EmptyNS
            \/ /\ last'.op = "read" /\ last'.exc = "none" /\ wrapped = empty
               /\ cache' = [n \in {last'.name} |-> last'.val]]_vars

\* the backing object was replaced by an assignment to _wrapped after an
\* earlier one had been bound and read from
C16_Witness ==
    /\ last.op = "rebind"
    /\ wrapped.kind = "SettingsHolder"
    /\ wrapped.id = 2
    /\ cache = EmptyNS
    /\ envReads = 1

-----------------------------------------------------------------------------
\* TIME_ZONE as the overlay resolves it
ResolvedTimeZone ==
    IF "TIME_ZONE" \in DOMAIN TheModule THEN TheModule["TIME_ZONE"]
    ELSE global_settings["TIME_ZONE"]

\* C17: one construction of Settings sets TZ and calls tzset at most once; it
\* does so exactly when the instance is built, the platform has tzset and the
\* resolved TIME_ZONE is truthy, hence only after the overlay, the sequence
\* validation and the SECRET_KEY check have passed, and TZ is then the
\* resolved TIME_ZONE; a construction that raises leaves TZ alone and calls
\* no tzset.
C17_TimeZoneOnlyOnSuccess ==
    /\ tzsets <= 1
    /\ last.op = "none" => (tzsets = 0 /\ "TZ" \notin DOMAIN environ)
    /\ (last.op = "Settings" /\ last.exc # "none") =>
          (tzsets = 0 /\ "TZ" \notin DOMAIN environ)
    /\ Attempted =>
          /\ tzsets = 1 <=> (Built /\ hasTzset /\ Truthy(ResolvedTimeZone))
          /\ tzsets = 1 =>
                /\ SequencesValid
                /\ Truthy(ResolvedSecretKey)
                /\ obj.attrs["TIME_ZONE"] = ResolvedTimeZone
                /\ environ = [k \in {"TZ"} |-> ResolvedTimeZone.v]
          /\ tzsets = 0 => "TZ" \notin DOMAIN environ

\* a Settings built from a module that sets TIME_ZONE: TZ is the module's value
C17_Witness ==
    /\ Built
    /\ hasTzset
    /\ "TIME_ZONE" \in DOMAIN TheModule
    /\ TheModule["TIME_ZONE"] = Str("k")
    /\ tzsets = 1
    /\ environ["TZ"] = "k"

-----------------------------------------------------------------------------
\* C18 as stated: over any sequence of operations on the proxy the
\* environment selector is read once at most, and a reading is the first one.
C18_Original ==
    /\ envReads <= 1
    /\ last.reads = 1 => envReads = 1

\* C18 amended: the selector is read once by every read, write or delete made
\* while the proxy is unconfigured, failed attempts included, and by nothing
\* else: never by configure, never once the proxy is bound.
C18_SelectorReadPerAttempt ==
    [][/\ envReads' = envReads + last'.reads
       /\ last'.reads = IF wrapped = empty /\ last'.op \in {"read", "write", "delete"}
                        THEN 1 ELSE 0
       /\ Bound => envReads' = envReads]_vars

\* a read served by a proxy that was bound at the second reading of the
\* selector, without a third reading
C18_Witness ==
    /\ envReads = 2
    /\ wrapped.kind = "Settings"
    /\ last.op = "read"
    /\ last.reads = 0
    /\ ~last.hit

-----------------------------------------------------------------------------
OnHolder == wrapped.kind = "SettingsHolder"

\* what a proxy without a cache gives for n: the backing object's answer
Forwarded(n) ==
    LET r == Wrapped_getattr(wrapped, n) IN [exc |-> r.exc, val |-> r.val]

\* what the holder's default_settings gives for n
HolderDefault(n) ==
    LET r == Module_getattr(wrapped.default_settings, n) IN [exc |-> r.exc, val |-> r.val]

\* the last operation was op on n through the proxy
ProxyDid(op, n) == last.op = op /\ last.name = n

\* C19 as stated: on a proxy bound to a holder a read of N gives what the
\* holder gives; right after a delete of N it is not found, right after a
\* write of N it is the value written, and right after configure a name that
\* is not an option reads the default, for every name N.
C19_Original ==
    OnHolder =>
        \A n \in ProxyNames :
            /\ Observed(n) = Forwarded(n)
            /\ ProxyDid("delete", n) => Observed(n) = NotFound
            /\ (ProxyDid("write", n) /\ last.exc = "none") => Observed(n).val \in WriteValues
            /\ (AfterConfigure /\ n \notin DOMAIN last.options) => Observed(n) = HolderDefault(n)

\* C19 amended: the same for every name but SETTINGS_MODULE, which reads None
\* where another name would be not found or inherited; a read changes what no
\* name reads, and a write or delete changes it for no other name.
C19_CacheTransparent ==
    /\ [](OnHolder =>
            \A n \in ProxyNames :
                /\ Observed(n) = Forwarded(n)
                /\ (ProxyDid("write", n) /\ last.exc = "none") => Observed(n).val \in WriteValues
                /\ n # "SETTINGS_MODULE" =>
                      /\ ProxyDid("delete", n) => (Observed(n) = NotFound /\ last.exc = "none")
                      /\ (AfterConfigure /\ n \notin DOMAIN last.options)
                            => Observed(n) = HolderDefault(n)
                /\ n = "SETTINGS_MODULE" =>
                      /\ ProxyDid("delete", n) => Observed(n) = Found(None)
                      /\ (AfterConfigure /\ n \notin DOMAIN last.options)
                            => Observed(n) = Found(None))
    /\ [][(OnHolder /\ last'.op \in {"read", "write", "delete"}) =>
            \A n \in ProxyNames :
                (last'.op = "read" \/ last'.name # n) => Observed(n)' = Observed(n)]_vars

\* APPS, which the default provider defines, was deleted through the proxy
\* and then read: not found, while another name is served from the cache
C19_Witness ==
    /\ OnHolder
    /\ ProxyDid("read", "APPS")
    /\ last.exc = "AttributeError"
    /\ "APPS" \in wrapped.deleted
    /\ "APPS" \in DOMAIN wrapped.default_settings
    /\ "APPS" \notin DOMAIN cache
    /\ "SECRET_KEY" \in DOMAIN cache

-----------------------------------------------------------------------------
\* n was set on the holder, or deleted from it, or its default_settings
\* reports it overridden
Customized(n) ==
    \/ n \in obj.deleted
    \/ n \in DOMAIN obj.attrs
    \/ n \in obj.explicit_settings

\* C20: holder.is_overridden(N) is true exactly when N is deleted, or set on
\* the holder, or reported overridden by default_settings; after a set or a
\* delete of N it is true, and once true it stays true under every later set
\* and delete.
C20_IsOverriddenMonotone ==
    /\ [](\A n \in HolderNames :
            /\ SettingsHolder_is_overridden(obj, n) <=> Customized(n)
            /\ LastWas("is_overridden", n) => last.val = Bool(Customized(n))
            /\ (LastWas("set", n) \/ LastWas("delete", n))
                  => SettingsHolder_is_overridden(obj, n))
    /\ [][\A n \in HolderNames :
            SettingsHolder_is_overridden(obj, n) => SettingsHolder_is_overridden(obj, n)']_vars

\* a holder over a Settings instance: TIME_ZONE, deleted, was asked and is
\* overridden; SECRET_KEY, untouched, is overridden because the Settings
\* instance says so; APPS, untouched, is not
C20_Witness ==
    /\ LastWas("is_overridden", "TIME_ZONE")
    /\ last.val = Bool(TRUE)
    /\ "TIME_ZONE" \in obj.deleted
    /\ "TIME_ZONE" \notin obj.explicit_settings
    /\ "SECRET_KEY" \notin obj.deleted \cup DOMAIN obj.attrs
    /\ SettingsHolder_is_overridden(obj, "SECRET_KEY")
    /\ ~SettingsHolder_is_overridden(obj, "APPS")

====
